---- MODULE Spec2Model ----
(***************************************************************************)
(* Student/Course management (Django app "courses"): the identity store,   *)
(* the StudentProfile, Course, Enrollment and AssignmentSubmission tables, *)
(* the request handlers of courses/views.py, the form validation of        *)
(* courses/forms.py and the post_save receivers of courses/signals.py.     *)
(***************************************************************************)
EXTENDS Integers, Sequences, FiniteSets, Bags, TLC

(***************************************************************************)
(* Bounds of the model.                                                    *)
(***************************************************************************)
\* timezone.now() takes the values 0..MaxTime
MaxTime == 1
\* the AssignmentSubmission table holds at most MaxSubs rows
MaxSubs == 1
\* the registration form adds at most MaxNewUsers rows to the identity store
MaxNewUsers == 1
\* the course form adds at most MaxNewCourses rows to the Course table
MaxNewCourses == 2

(***************************************************************************)
(* Values.                                                                 *)
(***************************************************************************)
\* request.user of a request without a session (AnonymousUser); also the
\* value of a NULL foreign key to the user table
Anonymous == 0
UserIds == {1, 2, 3}
Actors == UserIds \cup {Anonymous}
\* primary keys a request may name in course/<pk>/; MissingCourse names no row
CourseIds == {1, 2}
MissingCourse == 9
CoursePks == CourseIds \cup {MissingCourse}
Methods == {"GET", "POST"}
\* roll numbers typed into the manual enrollment form; "RX" is held by nobody
Rolls == {"R1", "R2", "RX"}
\* SQL NULL of a nullable CharField / DateTimeField
NullStr == "NULL"
NullTime == -1
\* posted grade values, and the posted feedback (Omitted: no such POST key)
Grades == {"A", "B"}
Omitted == "<omitted>"
FeedbackParams == {Omitted, "Good"}
\* uploaded file names by extension
Pdf == [stem |-> "hw", ext |-> "pdf"]
Docx == [stem |-> "hw", ext |-> "docx"]
Files == {Pdf, Docx}
\* what the mail backend does with one message
SendOutcomes == {"ok", "fail"}
\* the roll number typed into the registration form ("": left empty), and
\* the email address typed into it (a required field)
RollParams == {"", "R7"}
NewEmail == "new@x"

VARIABLES
    users,        \* identity store: user id -> [is_staff, is_superuser, email]
    profiles,     \* StudentProfile rows [id, user, roll_number]
    courses,      \* Course rows [id, instructor]
    enrollments,  \* Enrollment rows [student, course, enrolled_on, active, grade] (a bag)
    submissions,  \* AssignmentSubmission rows, pk = index
    now,          \* timezone.now()
    request,      \* the request served last, with the inputs its handler read
    response,     \* its outcome: the message / status the handler answered with
    sent,         \* the notifications the Notifier was handed while serving it
    pc,           \* concurrent requests: where each one stands in its handler
    loc,          \* concurrent requests: the handler's local variables
    listed        \* primary keys of the queryset the submission listing returned last

vars == <<users, profiles, courses, enrollments, submissions, now,
          request, response, sent, pc, loc, listed>>

(***************************************************************************)
(* Identity stores and course registries the handlers are run against.     *)
(* Users come from registration, createsuperuser and the admin site;       *)
(* a StudentProfile is made by the post_save receiver for every user that  *)
(* is created non-staff and can be removed in the admin site.  enrolled    *)
(* names the (user, course) enrollments of the ledger that the grading     *)
(* specification starts from.                                              *)
(***************************************************************************)
User(staff, super, email) ==
    [is_staff |-> staff, is_superuser |-> super, email |-> email]

Profile(u, roll) == [id |-> 10 + u, user |-> u, roll_number |-> roll]

Course(id, instructor) == [id |-> id, instructor |-> instructor]

\* two students (one without an email address) and a staff instructor
StoreA ==
    [users    |-> <<User(FALSE, FALSE, "u1@x"), User(FALSE, FALSE, ""),
                    User(TRUE, FALSE, "u3@x")>>,
     profiles |-> {Profile(1, "R1"), Profile(2, "R2")},
     courses  |-> {Course(1, 3), Course(2, Anonymous)},
     enrolled |-> {<<1, 1>>, <<2, 2>>}]

\* a student, a superuser without profile, a student promoted to staff
StoreB ==
    [users    |-> <<User(FALSE, FALSE, "u1@x"), User(FALSE, TRUE, "u2@x"),
                    User(TRUE, FALSE, "")>>,
     profiles |-> {Profile(1, "R1"), Profile(3, "R3")},
     courses  |-> {Course(1, 3), Course(2, 2)},
     enrolled |-> {<<1, 1>>}]

\* a demoted instructor (no profile, still instructs course 2), a superuser
\* with a profile, a staff superuser with a profile
StoreC ==
    [users    |-> <<User(FALSE, FALSE, "u1@x"), User(FALSE, TRUE, "u2@x"),
                    User(TRUE, TRUE, "u3@x")>>,
     profiles |-> {Profile(2, "R2"), Profile(3, "R3")},
     courses  |-> {Course(1, 3), Course(2, 1)},
     enrolled |-> {<<2, 2>>}]

IdentityStores == {StoreA, StoreB, StoreC}

\* a student who instructs course 2 (promoted, then demoted again), a second
\* student, a staff instructor
StoreD ==
    [users    |-> <<User(FALSE, FALSE, "u1@x"), User(FALSE, FALSE, "u2@x"),
                    User(TRUE, FALSE, "u3@x")>>,
     profiles |-> {Profile(1, "R1"), Profile(2, "R2")},
     courses  |-> {Course(1, 3), Course(2, 1)},
     enrolled |-> {<<1, 1>>, <<2, 1>>, <<2, 2>>}]

(***************************************************************************)
(* Queries.                                                                *)
(***************************************************************************)
is_authenticated(u) == u # Anonymous

is_staff(u) == users[u].is_staff

is_superuser(u) == users[u].is_superuser

\* user.studentprofile: the rows of the one-to-one relation
ProfilesOf(u) == {p \in profiles : p.user = u}

HasProfile(u) == ProfilesOf(u) # {}

studentprofile(u) == (CHOOSE p \in ProfilesOf(u) : TRUE).id

ProfileIds == {p.id : p \in profiles}

ProfileUser(pid) == (CHOOSE p \in profiles : p.id = pid).user

\* StudentProfile.objects.get(roll_number=roll)
ProfilesByRoll(roll) == {p \in profiles : p.roll_number = roll}

CourseExists(c) == \E k \in courses : k.id = c

CourseRow(c) == CHOOSE k \in courses : k.id = c

instructor_id(c) == CourseRow(c).instructor

EnrollmentSet == BagToSet(enrollments)

\* Enrollment.objects.filter(student=s, course=c)
EnrollmentsOf(s, c) == {e \in EnrollmentSet : e.student = s /\ e.course = c}

\* number of Enrollment rows of the pair, duplicates counted
EnrollmentCount(s, c) ==
    BagCardinality([e \in EnrollmentsOf(s, c) |-> CopiesIn(e, enrollments)])

(***************************************************************************)
(* The Enrollment table.                                                   *)
(***************************************************************************)
\* the table without its unique constraint
UniqueTogetherAllows_dropped(s, c) == TRUE

\* Meta.unique_together = ('student', 'course'): may a row of the pair be
\* inserted into the table?
UniqueTogetherAllows(s, c) == EnrollmentsOf(s, c) = {}

\* a row inserted with a stale enrolled_on
NewEnrollment_stale(s, c) ==
    [student |-> s, course |-> c, enrolled_on |-> 0, active |-> TRUE,
     grade |-> NullStr]

\* the row get_or_create(student=s, course=c, defaults={'active': True})
\* inserts: enrolled_on takes its default timezone.now, grade is NULL
NewEnrollment(s, c) ==
    [student |-> s, course |-> c, enrolled_on |-> now, active |-> TRUE,
     grade |-> NullStr]

\* a toggle that refreshes enrolled_on on a drop as well
Toggled_refreshing(e) ==
    [e EXCEPT !.active = ~e.active, !.enrolled_on = now]

\* the row after enroll_toggle's else branch: active flipped and saved, and
\* enrolled_on set to timezone.now() and saved when the row is now active
Toggled(e) ==
    [e EXCEPT !.active = ~e.active,
              !.enrolled_on = IF ~e.active THEN now ELSE e.enrolled_on]

Replace(old, new) == (enrollments (-) SetToBag({old})) (+) SetToBag({new})

\* the check left out
IsInstructorOnly_never(u) == FALSE

\* enroll_toggle's first check: instructor-only accounts may not enroll
IsInstructorOnly(u) == is_staff(u) /\ ~is_superuser(u)

(***************************************************************************)
(* Requests.  The record of a request holds the inputs its handler read on *)
(* the path it took: a handler that answers before it looks at the course  *)
(* or the form leaves them out.                                            *)
(***************************************************************************)
ReqBy(op, u) == [op |-> op, user |-> u]

ReqMethod(op, u, m) == [op |-> op, user |-> u, method |-> m]

ToggleReq(u, c) ==
    [op |-> "enroll_toggle", user |-> u, method |-> "POST", course |-> c]

\* enroll_manual reads request.user for login_required alone
ManualReq(roll, c) ==
    [op |-> "enroll_manual", method |-> "POST", roll |-> roll, course |-> c]

Idle == pc = [r \in DOMAIN pc |-> "idle"]

(***************************************************************************)
(* enroll_toggle, served without interleaving with another request.        *)
(***************************************************************************)
EnrollToggle(u, m, c) ==
    /\ Idle
    /\ sent' = <<>>
    /\ UNCHANGED <<users, profiles, courses, submissions, now, pc, loc, listed>>
    /\ IF ~is_authenticated(u)
       THEN /\ request' = ReqBy("enroll_toggle", u)
            /\ response' = "login_required"
            /\ UNCHANGED enrollments
       ELSE IF m # "POST"
       THEN /\ request' = ReqMethod("enroll_toggle", u, m)
            /\ response' = "method_not_allowed"
            /\ UNCHANGED enrollments
       ELSE IF IsInstructorOnly(u)
       THEN /\ request' = ReqMethod("enroll_toggle", u, m)
            /\ response' = "staff_cannot_enroll"
            /\ UNCHANGED enrollments
       ELSE IF ~HasProfile(u)
       THEN /\ request' = ReqMethod("enroll_toggle", u, m)
            /\ response' = "profile_not_found"
            /\ UNCHANGED enrollments
       ELSE IF ~CourseExists(c)
       THEN /\ request' = ToggleReq(u, c)
            /\ response' = "not_found"
            /\ UNCHANGED enrollments
       ELSE LET s == studentprofile(u)
                found == EnrollmentsOf(s, c)
            IN  /\ request' = ToggleReq(u, c)
                /\ IF found = {}
                   THEN IF UniqueTogetherAllows(s, c)
                        THEN /\ enrollments' =
                                   enrollments (+) SetToBag({NewEnrollment(s, c)})
                             /\ response' = "enrolled"
                        ELSE \* IntegrityError, and the row is still not there
                             /\ response' = "server_error"
                             /\ UNCHANGED enrollments
                   ELSE IF EnrollmentCount(s, c) > 1
                   THEN \* MultipleObjectsReturned
                        /\ response' = "server_error"
                        /\ UNCHANGED enrollments
                   ELSE LET e == CHOOSE x \in found : TRUE
                        IN  /\ enrollments' = Replace(e, Toggled(e))
                            /\ response' = IF Toggled(e).active
                                           THEN "re-enrolled" ELSE "dropped"

(***************************************************************************)
(* enroll_manual, served without interleaving with another request.  Of    *)
(* request.user the handler reads is_authenticated alone.                  *)
(***************************************************************************)
EnrollManual(authenticated, m, roll, c) ==
    /\ Idle
    /\ sent' = <<>>
    /\ UNCHANGED <<users, profiles, courses, submissions, now, pc, loc, listed>>
    /\ IF ~authenticated
       THEN /\ request' = ReqBy("enroll_manual", Anonymous)
            /\ response' = "login_required"
            /\ UNCHANGED enrollments
       ELSE IF m # "POST"
       THEN /\ request' = [op |-> "enroll_manual", method |-> m]
            /\ response' = "form"
            /\ UNCHANGED enrollments
       ELSE IF ~CourseExists(c)
       THEN \* EnrollmentForm.course: not one of Course.objects.all()
            /\ request' = ManualReq(roll, c)
            /\ response' = "form_invalid"
            /\ UNCHANGED enrollments
       ELSE IF ProfilesByRoll(roll) = {}
       THEN /\ request' = ManualReq(roll, c)
            /\ response' = "no_student_with_roll"
            /\ UNCHANGED enrollments
       ELSE LET s == (CHOOSE p \in ProfilesByRoll(roll) : TRUE).id
            IN  /\ request' = ManualReq(roll, c)
                /\ response' = "manually_enrolled"
                /\ IF EnrollmentsOf(s, c) = {} /\ UniqueTogetherAllows(s, c)
                   THEN enrollments' =
                            enrollments (+) SetToBag({NewEnrollment(s, c)})
                   ELSE UNCHANGED enrollments

(***************************************************************************)
(* Assignment upload: AssignmentSubmissionForm and AssignmentCreateView.   *)
(***************************************************************************)
\* a filter that forgets active=True
ActiveCourseIds_any(s) == {e.course : e \in {x \in EnrollmentSet : x.student = s}}

\* profile.enrollments.filter(active=True).values_list('course_id')
ActiveCourseIds(s) ==
    {e.course : e \in {x \in EnrollmentSet : x.student = s /\ x.active}}

\* a form that offers a staff user every course
FormCourses_all(u) ==
    IF is_staff(u)
    THEN {k.id : k \in courses}
    ELSE IF HasProfile(u) THEN ActiveCourseIds(studentprofile(u)) ELSE {}

\* AssignmentSubmissionForm.__init__: the queryset of the course field
FormCourses(u) ==
    IF is_staff(u)
    THEN {k.id : k \in {x \in courses : x.instructor = u}}
    ELSE IF HasProfile(u) THEN ActiveCourseIds(studentprofile(u)) ELSE {}

\* FileExtensionValidator(['pdf']) on AssignmentSubmission.file
FileAllowed(f) == f.ext \in {"pdf"}

\* AssignmentSubmissionForm.is_valid(): the course is one of the queryset and
\* the file passes its validators
FormValid(u, c, f) == c \in FormCourses(u) /\ FileAllowed(f)

\* the row form.save(commit=False) builds and form_valid completes and saves
NewSubmission(s, c, f) ==
    [student |-> s, course |-> c, file |-> f, submitted_at |-> now,
     graded |-> FALSE, grade |-> NullStr, feedback |-> "",
     graded_by |-> Anonymous, graded_at |-> NullTime]

UploadReq(u, c, f) ==
    [op |-> "upload", user |-> u, method |-> "POST", course |-> c, file |-> f]

\* form_valid's own check of the selected course
ViewAllows(u, c) ==
    (is_staff(u) \/ is_superuser(u)) \/ c \in ActiveCourseIds(studentprofile(u))

\* an upload that adds a row; the table takes MaxSubs rows
Accepted(u, m, c, f) ==
    /\ is_authenticated(u) /\ m = "POST"
    /\ FormValid(u, c, f) /\ HasProfile(u) /\ ViewAllows(u, c)

\* a post_save receiver that also reacts to the insert
ShouldNotify_onInsertToo(created, graded) == created \/ graded

\* notify_student_on_graded: only react on grading, not on initial creation
ShouldNotify(created, graded) == ~created /\ graded

\* a receiver that lets the failure of the send out
NotifierRaises_propagating(outcome) == outcome = "fail"

\* notify_student_on_graded: send(fail_silently=True) inside try/except
\* Exception: does the failure of the send leave the receiver?
NotifierRaises(outcome) == FALSE

\* the messages notify_student_on_graded hands to the Notifier for one save
Notifications(pk, row, created, outcome) ==
    IF ShouldNotify(created, row.graded)
    THEN LET recipient == users[ProfileUser(row.student)].email
         IN  IF recipient = ""
             THEN <<>>
             ELSE <<[to |-> recipient, submission |-> pk, course |-> row.course,
                     grade |-> row.grade, feedback |-> row.feedback,
                     delivered |-> (outcome = "ok")]>>
    ELSE <<>>

Upload(u, m, c, f) ==
    /\ Idle
    /\ Accepted(u, m, c, f) => Len(submissions) < MaxSubs
    /\ UNCHANGED <<users, profiles, courses, enrollments, now, pc, loc, listed>>
    /\ IF ~is_authenticated(u)
       THEN /\ request' = ReqBy("upload", u)
            /\ response' = "login_required"
            /\ UNCHANGED <<submissions>> /\ sent' = <<>>
       ELSE IF m # "POST"
       THEN /\ request' = ReqMethod("upload", u, m)
            /\ response' = "form"
            /\ UNCHANGED <<submissions>> /\ sent' = <<>>
       ELSE IF ~FormValid(u, c, f)
       THEN /\ request' = UploadReq(u, c, f)
            /\ response' = "form_invalid"
            /\ UNCHANGED <<submissions>> /\ sent' = <<>>
       ELSE IF ~HasProfile(u)
       THEN /\ request' = UploadReq(u, c, f)
            /\ response' = "profile_missing"
            /\ UNCHANGED <<submissions>> /\ sent' = <<>>
       ELSE IF ~ViewAllows(u, c)
       THEN /\ request' = UploadReq(u, c, f)
            /\ response' = "not_in_active_enrollments"
            /\ UNCHANGED <<submissions>> /\ sent' = <<>>
       ELSE LET row == NewSubmission(studentprofile(u), c, f)
            IN  /\ request' = UploadReq(u, c, f)
                /\ submissions' = Append(submissions, row)
                /\ sent' = Notifications(Len(submissions) + 1, row, TRUE, "ok")
                /\ response' = "uploaded"

(***************************************************************************)
(* Grading: grade_submission and the post_save receiver.                   *)
(***************************************************************************)
\* a check that lets the owning student in as well
MayGrade_owner(u, sub) ==
    \/ is_superuser(u) \/ is_staff(u) \/ instructor_id(sub.course) = u
    \/ (HasProfile(u) /\ studentprofile(u) = sub.student)

\* only course instructor, staff, or superuser can grade
MayGrade(u, sub) ==
    is_superuser(u) \/ is_staff(u) \/ instructor_id(sub.course) = u

\* a handler that keeps the first grader and the first grading time
Graded_keeping(sub, u, grade, feedback) ==
    [sub EXCEPT !.grade = grade,
                !.feedback = IF feedback = Omitted THEN "" ELSE feedback,
                !.graded = TRUE,
                !.graded_by = IF sub.graded THEN sub.graded_by ELSE u,
                !.graded_at = IF sub.graded THEN sub.graded_at ELSE now]

\* the row grade_submission saves: request.POST.get('grade'),
\* request.POST.get('feedback', ''), graded, graded_by, graded_at
Graded(sub, u, grade, feedback) ==
    [sub EXCEPT !.grade = grade,
                !.feedback = IF feedback = Omitted THEN "" ELSE feedback,
                !.graded = TRUE,
                !.graded_by = u,
                !.graded_at = now]

GradeReq(u, pk, grade, feedback) ==
    [op |-> "grade", user |-> u, method |-> "POST", pk |-> pk,
     grade |-> grade, feedback |-> feedback]

GradeSubmission(u, m, pk, grade, feedback, outcome) ==
    /\ Idle
    /\ UNCHANGED <<users, profiles, courses, enrollments, now, pc, loc, listed>>
    /\ IF ~is_authenticated(u)
       THEN /\ request' = ReqBy("grade", u)
            /\ response' = "login_required"
            /\ UNCHANGED submissions /\ sent' = <<>>
       ELSE IF pk \notin DOMAIN submissions
       THEN /\ request' = [op |-> "grade", user |-> u, pk |-> pk]
            /\ response' = "not_found"
            /\ UNCHANGED submissions /\ sent' = <<>>
       ELSE IF ~MayGrade(u, submissions[pk])
       THEN /\ request' = [op |-> "grade", user |-> u, pk |-> pk]
            /\ response' = "not_authorized"
            /\ UNCHANGED submissions /\ sent' = <<>>
       ELSE IF m # "POST"
       THEN /\ request' = [op |-> "grade", user |-> u, pk |-> pk, method |-> m]
            /\ response' = "grade_form"
            /\ UNCHANGED submissions /\ sent' = <<>>
       ELSE LET row == Graded(submissions[pk], u, grade, feedback)
            IN  /\ request' = GradeReq(u, pk, grade, feedback)
                /\ submissions' = [submissions EXCEPT ![pk] = row]
                /\ sent' = Notifications(pk, row, FALSE, outcome)
                /\ response' = IF sent' # <<>> /\ NotifierRaises(outcome)
                               THEN "server_error" ELSE "graded"

(***************************************************************************)
(* Reading submissions: SubmissionDetailView and SubmissionListView.       *)
(***************************************************************************)
\* hasattr(user, 'studentprofile') and self.object.student == user.studentprofile;
\* AnonymousUser has no studentprofile
IsOwner(u, sub) ==
    is_authenticated(u) /\ HasProfile(u) /\ sub.student = studentprofile(u)

\* self.object.course.instructor_id == user.id; both are None for an
\* AnonymousUser and a course without instructor
IsCourseInstructor(u, sub) == instructor_id(sub.course) = u

\* a check that lets only staff and superusers in
MayView_staffOnly(u, sub) ==
    is_authenticated(u) /\ (is_superuser(u) \/ is_staff(u))

\* SubmissionDetailView.dispatch: superuser, staff, owner or course instructor
MayView(u, sub) ==
    \/ is_authenticated(u) /\ (is_superuser(u) \/ is_staff(u))
    \/ IsOwner(u, sub)
    \/ IsCourseInstructor(u, sub)

ViewReq(u, m, pk) == [op |-> "view", user |-> u, method |-> m, pk |-> pk]

\* dispatch gets the object and checks the user before LoginRequiredMixin
\* and the method dispatch of View run
ViewSubmission(u, m, pk) ==
    /\ Idle
    /\ UNCHANGED <<users, profiles, courses, enrollments, submissions, now,
                   pc, loc, listed>>
    /\ sent' = <<>>
    /\ IF pk \notin DOMAIN submissions
       THEN /\ request' = [op |-> "view", pk |-> pk]
            /\ response' = "not_found"
       ELSE IF ~MayView(u, submissions[pk])
       THEN /\ request' = [op |-> "view", user |-> u, pk |-> pk]
            /\ response' = "permission_denied"
       ELSE IF ~is_authenticated(u)
       THEN /\ request' = [op |-> "view", user |-> u, pk |-> pk]
            /\ response' = "login_required"
       ELSE /\ request' = ViewReq(u, m, pk)
            /\ response' = IF m = "GET" THEN "detail" ELSE "method_not_allowed"

\* request.GET.get('course') of a request without the parameter, or with an
\* empty one
NoCourse == 0
CourseFilters == CoursePks \cup {NoCourse}

\* qs.filter(course_id=course_id) if course_id else qs
InCourse(pk, cf) == cf = NoCourse \/ submissions[pk].course = cf

\* Course.objects.filter(instructor=user)
CoursesTaught(u) == {k.id : k \in {x \in courses : x.instructor = u}}

\* a listing that forgets the course filter outside the staff branch
Listing_unfiltered(u, cf) ==
    IF is_superuser(u) \/ is_staff(u)
    THEN {pk \in DOMAIN submissions : InCourse(pk, cf)}
    ELSE IF CoursesTaught(u) # {}
    THEN {pk \in DOMAIN submissions : submissions[pk].course \in CoursesTaught(u)}
    ELSE IF ~HasProfile(u)
    THEN {}
    ELSE {pk \in DOMAIN submissions : submissions[pk].student = studentprofile(u)}

\* SubmissionListView.get_queryset, as the set of the primary keys it selects
Listing(u, cf) ==
    IF is_superuser(u) \/ is_staff(u)
    THEN {pk \in DOMAIN submissions : InCourse(pk, cf)}
    ELSE IF CoursesTaught(u) # {}
    THEN {pk \in DOMAIN submissions :
             InCourse(pk, cf) /\ submissions[pk].course \in CoursesTaught(u)}
    ELSE IF ~HasProfile(u)
    THEN {}
    ELSE {pk \in DOMAIN submissions :
             submissions[pk].student = studentprofile(u) /\ InCourse(pk, cf)}

ListReq(u, cf) == [op |-> "list", user |-> u, method |-> "GET", course |-> cf]

ListSubmissions(u, m, cf) ==
    /\ Idle
    /\ UNCHANGED <<users, profiles, courses, enrollments, submissions, now,
                   pc, loc>>
    /\ sent' = <<>>
    /\ IF ~is_authenticated(u)
       THEN /\ request' = ReqBy("list", u)
            /\ response' = "login_required"
            /\ listed' = {}
       ELSE IF m # "GET"
       THEN /\ request' = ReqMethod("list", u, m)
            /\ response' = "method_not_allowed"
            /\ listed' = {}
       ELSE /\ request' = ListReq(u, cf)
            /\ response' = "list"
            /\ listed' = Listing(u, cf)

(***************************************************************************)
(* Course creation: CourseCreateView.                                      *)
(***************************************************************************)
\* CourseCreateView.test_func: require staff (or superuser)
test_func(u) == is_staff(u) \/ is_superuser(u)

\* the primary key the database gives to the next Course row
NextCoursePk == IF courses = {} THEN 1
                ELSE 1 + (CHOOSE i \in {k.id : k \in courses} :
                             \A j \in {k.id : k \in courses} : j <= i)

CourseCreateReq(u) ==
    [op |-> "course_create", user |-> u, method |-> "POST", valid |-> TRUE]

\* valid: CourseForm.is_valid(), the title is filled in
CourseCreate(u, m, valid) ==
    /\ Idle
    /\ (is_authenticated(u) /\ test_func(u) /\ m = "POST" /\ valid)
          => Cardinality(courses) < MaxNewCourses
    /\ UNCHANGED <<users, profiles, enrollments, submissions, now, pc, loc,
                   listed>>
    /\ sent' = <<>>
    /\ IF ~is_authenticated(u)
       THEN /\ request' = ReqBy("course_create", u)
            /\ response' = "login_required"
            /\ UNCHANGED courses
       ELSE IF ~test_func(u)
       THEN /\ request' = ReqBy("course_create", u)
            /\ response' = "only_instructors"
            /\ UNCHANGED courses
       ELSE IF m # "POST"
       THEN /\ request' = ReqMethod("course_create", u, m)
            /\ response' = "form"
            /\ UNCHANGED courses
       ELSE IF ~valid
       THEN /\ request' = [op |-> "course_create", user |-> u, method |-> m,
                           valid |-> FALSE]
            /\ response' = "form_invalid"
            /\ UNCHANGED courses
       ELSE /\ request' = CourseCreateReq(u)
            /\ response' = "course_created"
            /\ courses' = courses \cup {Course(NextCoursePk, u)}

(***************************************************************************)
(* Registration: register, RegistrationForm.save and the post_save         *)
(* receiver of the user table.                                             *)
(***************************************************************************)
RECURSIVE ZeroPad(_, _)
\* the format specification 05d applied to the decimal digits of a number
ZeroPad(digits, width) ==
    IF Len(digits) >= width THEN digits ELSE ZeroPad("0" \o digits, width)

\* default_roll = f"ROLL{instance.pk:05d}"
default_roll(pk) == "ROLL" \o ZeroPad(ToString(pk), 5)

\* StudentProfile.roll_number is unique: may a row with the roll be inserted?
RollFree(profs, roll) == \A p \in profs : p.roll_number # roll

\* StudentProfile.objects.get_or_create(user=u, defaults={'roll_number': roll})
\* raises IntegrityError when it has to insert and the roll is taken
ProfileCreateRaises(profs, u, roll) ==
    /\ \A p \in profs : p.user # u
    /\ ~RollFree(profs, roll)

\* the StudentProfile table after that get_or_create
GetOrCreateProfile(profs, u, roll) ==
    IF \E p \in profs : p.user = u
    THEN profs
    ELSE IF RollFree(profs, roll) THEN profs \cup {Profile(u, roll)} ELSE profs

\* create_student_profile_on_user_create: send(fail_silently=True) inside
\* try/except Exception: does the failure of the send leave the receiver?
WelcomeRaises(outcome) == FALSE

\* the messages create_student_profile_on_user_create hands to the Notifier
Welcome(pk, row, created, outcome) ==
    IF created /\ ~row.is_staff /\ row.email # ""
    THEN <<[to |-> row.email, user |-> pk, delivered |-> (outcome = "ok")]>>
    ELSE <<>>

RegisterReq(instructor, roll) ==
    [op |-> "register", method |-> "POST", valid |-> TRUE,
     is_instructor |-> instructor, roll_number |-> roll]

\* valid: the username is free, the passwords match and pass the validators
Register(m, valid, instructor, roll, outcome) ==
    /\ Idle
    /\ (m = "POST" /\ valid) => Len(users) < Cardinality(UserIds) + MaxNewUsers
    /\ UNCHANGED <<courses, enrollments, submissions, now, pc, loc, listed>>
    /\ IF m # "POST"
       THEN /\ request' = [op |-> "register", method |-> m]
            /\ response' = "form"
            /\ UNCHANGED <<users, profiles>> /\ sent' = <<>>
       ELSE IF ~valid
       THEN /\ request' = [op |-> "register", method |-> m, valid |-> FALSE]
            /\ response' = "form_invalid"
            /\ UNCHANGED <<users, profiles>> /\ sent' = <<>>
       ELSE LET pk == Len(users) + 1
                row == User(instructor, FALSE, NewEmail)
                \* user.save(): the INSERT, then the receiver
                inReceiver == ~row.is_staff
                receiverRaises ==
                    inReceiver /\ ProfileCreateRaises(profiles, pk, default_roll(pk))
                afterReceiver ==
                    IF inReceiver
                    THEN GetOrCreateProfile(profiles, pk, default_roll(pk))
                    ELSE profiles
                mail == IF receiverRaises THEN <<>>
                        ELSE Welcome(pk, row, TRUE, outcome)
                saveRaises ==
                    receiverRaises \/ (mail # <<>> /\ WelcomeRaises(outcome))
                \* back in RegistrationForm.save
                inForm == ~saveRaises /\ ~row.is_staff /\ roll # ""
            IN  /\ request' = RegisterReq(instructor, roll)
                /\ users' = Append(users, row)
                /\ profiles' = IF inForm
                               THEN GetOrCreateProfile(afterReceiver, pk, roll)
                               ELSE afterReceiver
                /\ sent' = mail
                /\ response' =
                     IF saveRaises
                        \/ (inForm /\ ProfileCreateRaises(afterReceiver, pk, roll))
                     THEN "server_error" ELSE "registered"

\* the clock advances between requests
Tick ==
    /\ now < MaxTime
    /\ now' = now + 1
    /\ UNCHANGED <<users, profiles, courses, enrollments, submissions,
                   request, response, sent, pc, loc, listed>>

(***************************************************************************)
(* enroll_toggle and enroll_manual as the database sees them: each query   *)
(* of a handler is one step, and the steps of requests served at the same  *)
(* time interleave.  get_or_create is a SELECT, then an INSERT that the    *)
(* unique constraint may refuse (IntegrityError), then a second SELECT.    *)
(* Only requests that reach get_or_create are followed: the others answer  *)
(* before any query on the Enrollment table.                               *)
(***************************************************************************)
Reqs == {1, 2}

NoRow == [student |-> 0, course |-> 0, enrolled_on |-> NullTime,
          active |-> FALSE, grade |-> NullStr]

\* who: the acting user of enroll_toggle, the roll number of enroll_manual
Local(op, who, s, c, row) ==
    [op |-> op, user |-> who, student |-> s, course |-> c, row |-> row,
     refused |-> FALSE]

ConcUnchanged ==
    UNCHANGED <<users, profiles, courses, submissions, now, sent, listed>>

Finish(r, req, msg) ==
    /\ pc' = [pc EXCEPT ![r] = "idle"]
    /\ loc' = [loc EXCEPT ![r] = [op |-> "none"]]
    /\ request' = req
    /\ response' = msg

\* UPDATE ... SET active = v WHERE id = row.pk: the row the handler read is
\* the row of the pair
UpdateActive(s, c, v) ==
    LET e == CHOOSE x \in EnrollmentsOf(s, c) : TRUE
    IN  Replace(e, [e EXCEPT !.active = v])

\* UPDATE ... SET enrolled_on = t WHERE id = row.pk
UpdateEnrolledOn(s, c, t) ==
    LET e == CHOOSE x \in EnrollmentsOf(s, c) : TRUE
    IN  Replace(e, [e EXCEPT !.enrolled_on = t])

\* the SELECT of get_or_create in enroll_toggle
ToggleGet(r, u, c) ==
    /\ pc[r] = "idle"
    /\ is_authenticated(u) /\ ~IsInstructorOnly(u) /\ HasProfile(u)
    /\ CourseExists(c)
    /\ LET s == studentprofile(u)
           found == EnrollmentsOf(s, c)
       IN  IF found = {}
           THEN /\ pc' = [pc EXCEPT ![r] = "create"]
                /\ loc' = [loc EXCEPT ![r] = Local("enroll_toggle", u, s, c, NoRow)]
           ELSE /\ pc' = [pc EXCEPT ![r] = "save_active"]
                /\ loc' = [loc EXCEPT ![r] =
                             Local("enroll_toggle", u, s, c, CHOOSE e \in found : TRUE)]
    /\ UNCHANGED <<enrollments, request, response>>
    /\ ConcUnchanged

\* StudentProfile.objects.get(roll_number=roll) and the SELECT of
\* get_or_create in enroll_manual
ManualGet(r, roll, c) ==
    /\ pc[r] = "idle"
    /\ CourseExists(c) /\ ProfilesByRoll(roll) # {}
    /\ LET s == (CHOOSE p \in ProfilesByRoll(roll) : TRUE).id
       IN  IF EnrollmentsOf(s, c) = {}
           THEN /\ pc' = [pc EXCEPT ![r] = "create"]
                /\ loc' = [loc EXCEPT ![r] =
                             Local("enroll_manual", roll, s, c, NoRow)]
                /\ UNCHANGED <<request, response>>
           ELSE /\ Finish(r, ManualReq(roll, c), "manually_enrolled")
    /\ UNCHANGED enrollments
    /\ ConcUnchanged

\* the INSERT of get_or_create
Create(r) ==
    /\ pc[r] = "create"
    /\ LET l == loc[r]
       IN  IF UniqueTogetherAllows(l.student, l.course)
           THEN /\ enrollments' =
                      enrollments (+) SetToBag({NewEnrollment(l.student, l.course)})
                /\ IF l.op = "enroll_toggle"
                   THEN Finish(r, ToggleReq(l.user, l.course), "enrolled")
                   ELSE Finish(r, ManualReq(l.user, l.course), "manually_enrolled")
           ELSE \* IntegrityError: get_or_create selects again
                /\ pc' = [pc EXCEPT ![r] = "get_again"]
                /\ loc' = [loc EXCEPT ![r].refused = TRUE]
                /\ UNCHANGED <<enrollments, request, response>>
    /\ ConcUnchanged

\* the SELECT of get_or_create after the IntegrityError; created is False
GetAgain(r) ==
    /\ pc[r] = "get_again"
    /\ LET l == loc[r]
       IN  IF l.op = "enroll_toggle"
           THEN /\ pc' = [pc EXCEPT ![r] = "save_active"]
                /\ loc' = [loc EXCEPT ![r].row =
                             CHOOSE e \in EnrollmentsOf(l.student, l.course) : TRUE]
                /\ UNCHANGED <<request, response>>
           ELSE Finish(r, ManualReq(l.user, l.course), "manually_enrolled")
    /\ UNCHANGED enrollments
    /\ ConcUnchanged

\* a handler that selects the row again, under a lock, before it flips it
Flipped_locked(l) == ~(CHOOSE e \in EnrollmentsOf(l.student, l.course) : TRUE).active

\* not enrollment.active, of the enrollment object get_or_create returned
Flipped(l) == ~l.row.active

\* enrollment.active = not enrollment.active; save(update_fields=['active'])
SaveActive(r) ==
    /\ pc[r] = "save_active"
    /\ LET l == loc[r]
           flipped == Flipped(l)
       IN  /\ enrollments' = UpdateActive(l.student, l.course, flipped)
           /\ IF flipped
              THEN /\ pc' = [pc EXCEPT ![r] = "save_enrolled_on"]
                   /\ UNCHANGED <<loc, request, response>>
              ELSE Finish(r, ToggleReq(l.user, l.course), "dropped")
    /\ ConcUnchanged

\* enrollment.enrolled_on = timezone.now(); save(update_fields=['enrolled_on'])
SaveEnrolledOn(r) ==
    /\ pc[r] = "save_enrolled_on"
    /\ LET l == loc[r]
       IN  /\ enrollments' = UpdateEnrolledOn(l.student, l.course, now)
           /\ Finish(r, ToggleReq(l.user, l.course), "re-enrolled")
    /\ ConcUnchanged

(***************************************************************************)
(* Initial state: an identity store and course registry, empty ledgers.    *)
(***************************************************************************)
Init ==
    /\ \E st \in IdentityStores :
          /\ users = st.users
          /\ profiles = st.profiles
          /\ courses = st.courses
    /\ enrollments = EmptyBag
    /\ submissions = <<>>
    /\ now = 0
    /\ request = [op |-> "none"]
    /\ response = "none"
    /\ sent = <<>>
    /\ pc = [r \in Reqs |-> "idle"]
    /\ loc = [r \in Reqs |-> [op |-> "none"]]
    /\ listed = {}

Next ==
    \/ \E u \in Actors, m \in Methods, c \in CoursePks : EnrollToggle(u, m, c)
    \/ \E authenticated \in BOOLEAN, m \in Methods, roll \in Rolls, c \in CoursePks :
          EnrollManual(authenticated, m, roll, c)
    \/ Tick

Spec == Init /\ [][Next]_vars

\* requests served within one instant of the clock
NextUpload ==
    \/ \E u \in Actors, m \in Methods, c \in CoursePks : EnrollToggle(u, m, c)
    \/ \E u \in Actors, m \in Methods, c \in CoursePks, f \in Files :
          Upload(u, m, c, f)

SpecUpload == Init /\ [][NextUpload]_vars

\* the ledger after the enrollments named by the identity store were made
InitGrade ==
    /\ \E st \in IdentityStores :
          /\ users = st.users
          /\ profiles = st.profiles
          /\ courses = st.courses
          /\ enrollments =
                SetToBag({[student |-> 10 + x[1], course |-> x[2],
                           enrolled_on |-> 0, active |-> TRUE, grade |-> NullStr]
                          : x \in st.enrolled})
    /\ submissions = <<>>
    /\ now = 0
    /\ request = [op |-> "none"]
    /\ response = "none"
    /\ sent = <<>>
    /\ pc = [r \in Reqs |-> "idle"]
    /\ loc = [r \in Reqs |-> [op |-> "none"]]
    /\ listed = {}

\* uploads of PDF files, and the requests to grade the first submission
NextGrade ==
    \/ \E u \in UserIds, c \in CourseIds : Upload(u, "POST", c, Pdf)
    \/ \E u \in Actors, m \in Methods, grade \in Grades,
          feedback \in FeedbackParams, outcome \in SendOutcomes :
          GradeSubmission(u, m, 1, grade, feedback, outcome)
    \/ Tick

SpecGrade == InitGrade /\ [][NextGrade]_vars

\* the requests whose saves reach a post_save receiver, within one instant
NextNotify ==
    \/ \E u \in UserIds, c \in CourseIds : Upload(u, "POST", c, Pdf)
    \/ \E u \in Actors, m \in Methods, grade \in Grades,
          feedback \in FeedbackParams, outcome \in SendOutcomes :
          GradeSubmission(u, m, 1, grade, feedback, outcome)
    \/ \E m \in Methods, valid \in BOOLEAN, instructor \in BOOLEAN,
          roll \in RollParams, outcome \in SendOutcomes :
          Register(m, valid, instructor, roll, outcome)

SpecNotify == InitGrade /\ [][NextNotify]_vars

RECURSIVE SubmittedBy(_)
\* the AssignmentSubmission table after the enrollments of pairs uploaded
\* one PDF each
SubmittedBy(pairs) ==
    IF pairs = {}
    THEN <<>>
    ELSE LET x == CHOOSE y \in pairs : TRUE
         IN  <<[student |-> 10 + x[1], course |-> x[2], file |-> Pdf,
                submitted_at |-> 0, graded |-> FALSE, grade |-> NullStr,
                feedback |-> "", graded_by |-> Anonymous,
                graded_at |-> NullTime]>> \o SubmittedBy(pairs \ {x})

\* the ledger of an identity store, and the uploads of some of its enrollments
InitView ==
    /\ \E st \in IdentityStores \cup {StoreD} :
          /\ users = st.users
          /\ profiles = st.profiles
          /\ courses = st.courses
          /\ enrollments =
                SetToBag({[student |-> 10 + x[1], course |-> x[2],
                           enrolled_on |-> 0, active |-> TRUE, grade |-> NullStr]
                          : x \in st.enrolled})
          /\ \E pairs \in SUBSET st.enrolled : submissions = SubmittedBy(pairs)
    /\ now = 0
    /\ request = [op |-> "none"]
    /\ response = "none"
    /\ sent = <<>>
    /\ pc = [r \in Reqs |-> "idle"]
    /\ loc = [r \in Reqs |-> [op |-> "none"]]
    /\ listed = {}

\* uploads, and the requests that read submissions
NextView ==
    \/ \E u \in UserIds, c \in CourseIds : Upload(u, "POST", c, Pdf)
    \/ \E u \in Actors, m \in Methods, pk \in 1..(MaxSubs + 1) :
          ViewSubmission(u, m, pk)
    \/ \E u \in Actors, m \in Methods, cf \in CourseFilters :
          ListSubmissions(u, m, cf)

SpecView == InitView /\ [][NextView]_vars

\* an identity store before any course was created
InitCourse ==
    /\ \E st \in IdentityStores :
          /\ users = st.users
          /\ profiles = st.profiles
    /\ courses = {}
    /\ enrollments = EmptyBag
    /\ submissions = <<>>
    /\ now = 0
    /\ request = [op |-> "none"]
    /\ response = "none"
    /\ sent = <<>>
    /\ pc = [r \in Reqs |-> "idle"]
    /\ loc = [r \in Reqs |-> [op |-> "none"]]
    /\ listed = {}

\* courses are created, and students enroll in them
NextCourse ==
    \/ \E u \in Actors, m \in Methods, valid \in BOOLEAN : CourseCreate(u, m, valid)
    \/ \E u \in UserIds, c \in CourseIds : EnrollToggle(u, "POST", c)

SpecCourse == InitCourse /\ [][NextCourse]_vars

NextConc ==
    \/ \E r \in Reqs, u \in UserIds, c \in CourseIds : ToggleGet(r, u, c)
    \/ \E r \in Reqs, roll \in Rolls, c \in CourseIds : ManualGet(r, roll, c)
    \/ \E r \in Reqs : Create(r)
    \/ \E r \in Reqs : GetAgain(r)
    \/ \E r \in Reqs : SaveActive(r)
    \/ \E r \in Reqs : SaveEnrolledOn(r)

SpecConc == Init /\ [][NextConc]_vars

(***************************************************************************)
(* Properties of enrollment.                                               *)
(***************************************************************************)
TheEnrollment(s, c) == CHOOSE e \in EnrollmentsOf(s, c) : TRUE

ToggleOutcomes == {"enrolled", "re-enrolled", "dropped"}

\* C1: when a non-staff identity with a profile toggles enrollment in a course
\* for which no Enrollment row of its profile exists, the call leaves exactly
\* one row of the (profile, course) pair, with active = TRUE and enrolled_on
\* equal to the time of the toggle.
C1_FirstToggleEnrolls ==
    [][\A u \in UserIds, c \in CourseIds :
          (/\ ~is_staff(u) /\ HasProfile(u)
           /\ EnrollmentsOf(studentprofile(u), c) = {}
           /\ request' = ToggleReq(u, c)
           /\ now' = now)
          => (/\ response' = "enrolled"
              /\ EnrollmentCount(studentprofile(u), c)' = 1
              /\ TheEnrollment(studentprofile(u), c)'.active
              /\ TheEnrollment(studentprofile(u), c)'.enrolled_on = now)]_vars

C1_Witness ==
    \E u \in UserIds, c \in CourseIds :
       /\ ~is_staff(u) /\ HasProfile(u)
       /\ request = ToggleReq(u, c) /\ response = "enrolled"
       /\ now > 0
       /\ EnrollmentCount(studentprofile(u), c) = 1
       /\ TheEnrollment(studentprofile(u), c).enrolled_on = now

\* C2: a toggle of an existing Enrollment flips active, and sets enrolled_on
\* to the time of the call when it moves active to TRUE and leaves it alone
\* when it moves active to FALSE; of two toggles in succession by the same
\* identity on the same course, the second returns active to the value it
\* had before the first (TRUE when the first answered "dropped", FALSE when
\* it answered "re-enrolled").
C2_ToggleTwice ==
    [][\A u \in UserIds, c \in CourseIds :
          (/\ request' = ToggleReq(u, c)
           /\ response' \in {"re-enrolled", "dropped"}
           /\ enrollments' # enrollments)
          => LET s == studentprofile(u)
                 e == TheEnrollment(s, c)
                 e2 == TheEnrollment(s, c)'
             IN  /\ EnrollmentsOf(s, c) # {}
                 /\ e2.active = ~e.active
                 /\ e2.enrolled_on = IF e2.active THEN now ELSE e.enrolled_on
                 /\ (request = ToggleReq(u, c) /\ response = "dropped")
                       => e2.active
                 /\ (request = ToggleReq(u, c) /\ response = "re-enrolled")
                       => ~e2.active]_vars

C2_Witness ==
    \E u \in UserIds, c \in CourseIds :
       /\ request = ToggleReq(u, c) /\ response = "re-enrolled"
       /\ now > 0
       /\ TheEnrollment(studentprofile(u), c).active
       /\ TheEnrollment(studentprofile(u), c).enrolled_on = now

\* C3: in every reachable state, whatever enroll_toggle and enroll_manual
\* requests were served and however their queries interleaved, at most one
\* Enrollment row exists for each (student profile, course) pair.
C3_EnrollmentUnique ==
    \A s \in ProfileIds, c \in CourseIds : EnrollmentCount(s, c) <= 1

\* a request whose INSERT the unique constraint refused, the row being there
C3_Witness ==
    \E r \in Reqs :
       /\ pc[r] = "get_again" /\ loc[r].refused
       /\ EnrollmentCount(loc[r].student, loc[r].course) = 1

\* C4: an enroll_toggle call by an identity that is staff without superuser,
\* or that has no StudentProfile, is rejected and leaves the Enrollment table
\* as it was: no row created, no row changed.
C4_RejectedToggle ==
    [][\A u \in UserIds :
          (/\ (is_staff(u) /\ ~is_superuser(u)) \/ ProfilesOf(u) = {}
           /\ request'.op = "enroll_toggle"
           /\ request'.user = u
           /\ request'.method = "POST")
          => (/\ response' \in {"staff_cannot_enroll", "profile_not_found"}
              /\ enrollments' = enrollments)]_vars

C4_Witness ==
    /\ request.op = "enroll_toggle"
    /\ response = "staff_cannot_enroll"
    /\ HasProfile(request.user)
    /\ enrollments # EmptyBag

(***************************************************************************)
(* Properties of the upload.                                               *)
(***************************************************************************)
IsPlain(u) == ~is_staff(u) /\ ~is_superuser(u)

HoldsActive(s, c) ==
    \E e \in EnrollmentSet : e.student = s /\ e.course = c /\ e.active

\* the step appends one ungraded Submission of profile s for course c
AppendsSubmission(s, c) ==
    /\ Len(submissions') = Len(submissions) + 1
    /\ SubSeq(submissions', 1, Len(submissions)) = submissions
    /\ submissions'[Len(submissions')].student = s
    /\ submissions'[Len(submissions')].course = c
    /\ submissions'[Len(submissions')].graded = FALSE
    /\ submissions'[Len(submissions')].submitted_at = now

\* C5: for an identity that is neither staff nor superuser and has a profile,
\* the upload of a PDF file for course c creates a Submission (owned by the
\* profile, graded = FALSE) if and only if the profile holds an Enrollment in
\* c with active = TRUE at that time; otherwise the upload is rejected and no
\* Submission row is created.
C5_UploadIffEnrolled ==
    [][\A u \in UserIds, c \in CourseIds :
          (/\ IsPlain(u) /\ HasProfile(u)
           /\ request' = UploadReq(u, c, Pdf)
           /\ now' = now)
          => IF HoldsActive(studentprofile(u), c)
             THEN response' = "uploaded" /\ AppendsSubmission(studentprofile(u), c)
             ELSE response' # "uploaded" /\ submissions' = submissions]_vars

\* the student uploaded for the one course it is enrolled in, and is refused
\* for the course it dropped
C5_Witness ==
    \E u \in UserIds, c \in CourseIds, c2 \in CourseIds :
       /\ IsPlain(u) /\ HasProfile(u) /\ c # c2
       /\ request = UploadReq(u, c, Pdf) /\ response = "form_invalid"
       /\ EnrollmentsOf(studentprofile(u), c) # {}
       /\ ~HoldsActive(studentprofile(u), c)
       /\ HoldsActive(studentprofile(u), c2)
       /\ \E i \in DOMAIN submissions :
             /\ submissions[i].student = studentprofile(u)
             /\ submissions[i].course = c2

\* C6 as stated: a staff or superuser identity with a profile uploads for any
\* existing course, whoever instructs it and whatever the enrollments; one
\* without a profile gets ProfileMissing and no row.
C6_Original ==
    [][\A u \in UserIds, c \in CourseIds :
          (/\ is_staff(u) \/ is_superuser(u)
           /\ request' = UploadReq(u, c, Pdf)
           /\ now' = now)
          => IF HasProfile(u)
             THEN response' = "uploaded" /\ AppendsSubmission(studentprofile(u), c)
             ELSE response' = "profile_missing" /\ submissions' = submissions]_vars

\* the courses the form lets a staff or superuser identity upload for
Eligible(u, c) ==
    IF is_staff(u)
    THEN \E k \in courses : k.id = c /\ k.instructor = u
    ELSE HasProfile(u) /\ HoldsActive(studentprofile(u), c)

\* C6 amended: a staff identity uploads for course c exactly when it instructs
\* c and has a profile, whatever the enrollments; a superuser that is not
\* staff exactly when its profile holds an active Enrollment in c; a staff
\* identity without profile that instructs c gets ProfileMissing; in every
\* refused case no Submission row is created.
C6_StaffUpload ==
    [][\A u \in UserIds, c \in CourseIds :
          (/\ is_staff(u) \/ is_superuser(u)
           /\ request' = UploadReq(u, c, Pdf)
           /\ now' = now)
          => IF Eligible(u, c) /\ HasProfile(u)
             THEN response' = "uploaded" /\ AppendsSubmission(studentprofile(u), c)
             ELSE /\ submissions' = submissions
                  /\ response' = IF Eligible(u, c) THEN "profile_missing"
                                                   ELSE "form_invalid"]_vars

\* a staff identity uploaded for the course it instructs without being enrolled
C6_Witness ==
    \E u \in UserIds, c \in CourseIds :
       /\ is_staff(u) /\ ~is_superuser(u) /\ HasProfile(u)
       /\ request = UploadReq(u, c, Pdf) /\ response = "uploaded"
       /\ EnrollmentsOf(studentprofile(u), c) = {}
       /\ submissions[Len(submissions)].student = studentprofile(u)

(***************************************************************************)
(* Properties of grading.                                                  *)
(***************************************************************************)
\* C7: a grade_submission request, GET or POST, by an identity that is
\* neither the instructor of the submission's course, nor staff, nor
\* superuser is rejected and leaves the Submission, with its grade, feedback,
\* graded, graded_by and graded_at, unchanged.
C7_UnauthorizedGrade ==
    [][\A u \in UserIds, pk \in DOMAIN submissions :
          (/\ IsPlain(u)
           /\ CourseRow(submissions[pk].course).instructor # u
           /\ request'.op = "grade"
           /\ request'.user = u
           /\ request'.pk = pk
           /\ now' = now)
          => (/\ response' = "not_authorized"
              /\ submissions' = submissions
              /\ sent' = <<>>)]_vars

\* the owning student is refused on its own, already graded, submission
C7_Witness ==
    /\ request.op = "grade"
    /\ response = "not_authorized"
    /\ submissions[request.pk].graded
    /\ HasProfile(request.user)
    /\ submissions[request.pk].student = studentprofile(request.user)

\* C8: an authorized grading POST sets graded = TRUE, graded_by = the acting
\* identity, graded_at = the time of the request, grade = the posted grade
\* and feedback = the posted feedback ("" when omitted), whatever the five
\* fields held before (a second POST overwrites the first), and touches no
\* other field and no other row.
C8_GradeOverwrites ==
    [][\A u \in UserIds, pk \in DOMAIN submissions, g \in Grades,
          f \in FeedbackParams :
          (request' = GradeReq(u, pk, g, f) /\ now' = now)
          => (/\ response' = "graded"
              /\ submissions' =
                   [submissions EXCEPT ![pk] =
                      [student |-> @.student, course |-> @.course,
                       file |-> @.file, submitted_at |-> @.submitted_at,
                       graded |-> TRUE, grade |-> g,
                       feedback |-> IF f = Omitted THEN "" ELSE f,
                       graded_by |-> u, graded_at |-> now]]
              /\ u # Anonymous)]_vars

C8_Witness ==
    \E u \in UserIds, pk \in DOMAIN submissions :
       /\ request = GradeReq(u, pk, "B", Omitted) /\ response = "graded"
       /\ submissions[pk].graded
       /\ submissions[pk].grade = "B" /\ submissions[pk].feedback = ""
       /\ submissions[pk].graded_by = u
       /\ submissions[pk].graded_at = now
       /\ submissions[pk].submitted_at < now

\* C9: the insert that creates a Submission hands nothing to the Notifier;
\* every grading POST (the first and every re-grading) hands it exactly one
\* message, to the student's email address and with the grade just written,
\* when the student has an email address, and nothing when it has none.
C9_NotifyOncePerGrading ==
    [][/\ (request'.op = "upload" /\ response' = "uploaded" /\ now' = now)
             => sent' = <<>>
       /\ \A u \in UserIds, pk \in DOMAIN submissions, g \in Grades,
             f \in FeedbackParams :
             (request' = GradeReq(u, pk, g, f) /\ now' = now)
             => LET email == users[ProfileUser(submissions[pk].student)].email
                IN  IF email # ""
                    THEN /\ Len(sent') = 1
                         /\ sent'[1].to = email
                         /\ sent'[1].submission = pk
                         /\ sent'[1].grade = g
                    ELSE sent' = <<>>]_vars

C9_Witness ==
    \E u \in UserIds, pk \in DOMAIN submissions :
       /\ request = GradeReq(u, pk, "A", "Good") /\ response = "graded"
       /\ CourseRow(submissions[pk].course).instructor = u
       /\ Len(sent) = 1
       /\ sent[1].to = users[ProfileUser(submissions[pk].student)].email
       /\ sent[1].grade = "A" /\ sent[1].feedback = "Good"

\* C10: a grading POST whose notification send fails completes with its
\* normal outcome, and the Submission holds the new grade, feedback,
\* graded = TRUE, graded_by and graded_at; a registration whose welcome
\* send fails completes with its normal outcome too, and the identity store
\* holds the new account and the StudentProfile table its profile.
C10_SendFailureSwallowed ==
    [][/\ \A u \in UserIds, pk \in DOMAIN submissions, g \in Grades,
             f \in FeedbackParams :
             (/\ request' = GradeReq(u, pk, g, f)
              /\ sent' # <<>> /\ ~sent'[1].delivered)
             => (/\ response' = "graded"
                 /\ submissions'[pk].graded
                 /\ submissions'[pk].grade = g
                 /\ submissions'[pk].feedback = (IF f = Omitted THEN "" ELSE f)
                 /\ submissions'[pk].graded_by = u
                 /\ submissions'[pk].graded_at = now)
       /\ \A instructor \in BOOLEAN, roll \in RollParams :
             (/\ request' = RegisterReq(instructor, roll)
              /\ sent' # <<>> /\ ~sent'[1].delivered)
             => (/\ response' = "registered"
                 /\ users' = Append(users, User(instructor, FALSE, NewEmail))
                 /\ \E p \in profiles' : p.user = Len(users'))]_vars

\* a grading whose send failed, after a registration was served
C10_Witness ==
    \E u \in UserIds, pk \in DOMAIN submissions :
       /\ request = GradeReq(u, pk, "A", "Good") /\ response = "graded"
       /\ Len(sent) = 1 /\ ~sent[1].delivered
       /\ submissions[pk].graded /\ submissions[pk].grade = "A"
       /\ submissions[pk].graded_by = u
       /\ Len(users) > Cardinality(UserIds)

(***************************************************************************)
(* Properties of reading submissions.                                      *)
(***************************************************************************)
\* C11: a GET of a Submission's detail by an authenticated identity shows it
\* if and only if the identity owns the submission, instructs its course, is
\* staff or is superuser; otherwise the request is redirected with a message;
\* the Submission table is the same after either outcome.
C11_DetailVisibility ==
    [][\A u \in UserIds, pk \in DOMAIN submissions :
          (/\ request'.op = "view"
           /\ "user" \in DOMAIN request' /\ request'.user = u
           /\ request'.pk = pk
           /\ "method" \in DOMAIN request' => request'.method = "GET")
          => (/\ response' \in {"detail", "permission_denied"}
              /\ response' = "detail" <=>
                    \/ \E p \in profiles :
                          p.user = u /\ p.id = submissions[pk].student
                    \/ CourseRow(submissions[pk].course).instructor = u
                    \/ users[u].is_staff
                    \/ users[u].is_superuser
              /\ submissions' = submissions)]_vars

\* the owning student, neither staff nor superuser nor instructor of the
\* course, is shown its submission
C11_Witness ==
    /\ request.op = "view" /\ response = "detail"
    /\ ~users[request.user].is_staff /\ ~users[request.user].is_superuser
    /\ CourseRow(submissions[request.pk].course).instructor # request.user
    /\ \E p \in profiles :
          p.user = request.user /\ p.id = submissions[request.pk].student

\* the submissions of the courses whose instructor is u
OfCoursesTaughtBy(u) ==
    {pk \in DOMAIN submissions :
        CourseRow(submissions[pk].course).instructor = u}

\* the submissions owned by the profile of u
OwnedBy(u) ==
    {pk \in DOMAIN submissions :
        \E p \in profiles : p.user = u /\ p.id = submissions[pk].student}

\* the submissions a course filter lets through
Filtered(cf) ==
    {pk \in DOMAIN submissions : cf = NoCourse \/ submissions[pk].course = cf}

Privileged(u) == users[u].is_staff \/ users[u].is_superuser

Teaches(u) == \E k \in courses : k.instructor = u

\* the listing is all submissions, restricted by the course filter, for staff
\* or superuser; for the others the course filter is not applied: exactly
\* the submissions of the courses the identity instructs, exactly the
\* submissions its profile owns, or nothing.
C12_Original ==
    [][\A u \in UserIds, cf \in CourseFilters :
          request' = ListReq(u, cf)
          => /\ listed' =
                   IF Privileged(u) THEN Filtered(cf)
                   ELSE IF Teaches(u) THEN OfCoursesTaughtBy(u)
                   ELSE OwnedBy(u)
             /\ ~Privileged(u)
                   => listed' \subseteq (OwnedBy(u) \cup OfCoursesTaughtBy(u))]_vars

\* C12: the listing returned to an identity, restricted to the requested
\* course when a course filter is given, is all submissions for staff or
\* superuser, the submissions of the courses it instructs for a non-staff
\* identity that instructs at least one course, the submissions its own
\* profile owns for a plain student, and nothing for an identity with no
\* role and no profile; outside staff and superuser no identity receives a
\* submission that is neither its own nor of a course it instructs.
C12_Listing ==
    [][\A u \in UserIds, cf \in CourseFilters :
          request' = ListReq(u, cf)
          => /\ listed' =
                   IF Privileged(u) THEN Filtered(cf)
                   ELSE IF Teaches(u) THEN OfCoursesTaughtBy(u) \cap Filtered(cf)
                   ELSE OwnedBy(u) \cap Filtered(cf)
             /\ (~Privileged(u) /\ ~Teaches(u) /\ ProfilesOf(u) = {})
                   => listed' = {}
             /\ ~Privileged(u)
                   => listed' \subseteq (OwnedBy(u) \cup OfCoursesTaughtBy(u))
             /\ submissions' = submissions]_vars

\* a student that instructs a course asks for that course: the listing holds
\* another student's submission and leaves out its own of another course
C12_Witness ==
    /\ request.op = "list" /\ response = "list"
    /\ request.course # NoCourse
    /\ ~Privileged(request.user) /\ Teaches(request.user)
    /\ listed # {}
    /\ OwnedBy(request.user) # {}
    /\ OwnedBy(request.user) \cap listed = {}

(***************************************************************************)
(* Properties of concurrent requests.                                      *)
(***************************************************************************)
\* C13: enroll_toggle writes the negation of the active value it read, with
\* no lock and no second read.  When the row still holds the value read, the
\* write flips it: of two toggles served one after the other the second
\* restores the original value.  When a concurrent toggle of the same pair
\* has written in between, the write repeats that toggle instead of undoing
\* it: after both, active is the negation of the original value.
C13_ToggleRace ==
    [][\A r \in Reqs :
          (pc[r] = "save_active" /\ pc'[r] # "save_active")
          => LET s == loc[r].student
                 c == loc[r].course
                 read == loc[r].row.active
                 stored == (CHOOSE e \in EnrollmentsOf(s, c) : TRUE).active
                 written ==
                    (CHOOSE e \in BagToSet(enrollments') :
                        e.student = s /\ e.course = c).active
             IN  /\ written = ~read
                 /\ read = stored => written = ~stored
                 /\ read # stored => written = stored]_vars

\* two toggles of one active enrollment read it before either wrote; the
\* first has dropped it, and the second is about to write what it read as
\* well: active ends as the negation of the original value
C13_Witness ==
    \E r \in Reqs :
       /\ pc[r] = "save_active"
       /\ loc[r].row.active
       /\ \A q \in Reqs \ {r} : pc[q] = "idle"
       /\ request = ToggleReq(loc[r].user, loc[r].course)
       /\ response = "dropped"
       /\ \A e \in EnrollmentsOf(loc[r].student, loc[r].course) : ~e.active

(***************************************************************************)
(* Properties of the Course table.                                         *)
(***************************************************************************)
\* C14: every Course whose instructor reference is set has an instructor
\* with is_staff = TRUE.
C14_InstructorIsStaff ==
    \A k \in courses : k.instructor # Anonymous => users[k.instructor].is_staff

(***************************************************************************)
(* Properties of registration.                                             *)
(***************************************************************************)
\* C15: after a non-instructor account is registered, exactly one
\* StudentProfile exists for the new identity; its roll_number is the roll
\* number supplied in the form when one was supplied, and the placeholder
\* (ROLL and the identity id) only when none was; an instructor registration
\* creates no StudentProfile.
C15_RegistrationProfile ==
    [][\A instructor \in BOOLEAN, roll \in RollParams :
          request' = RegisterReq(instructor, roll)
          => LET pk == Len(users')
                 mine == {p \in profiles' : p.user = pk}
             IN  IF instructor
                 THEN mine = {}
                 ELSE /\ Cardinality(mine) = 1
                      /\ \A p \in mine :
                            p.roll_number =
                               IF roll # "" THEN roll
                               ELSE "ROLL" \o ZeroPad(ToString(pk), 5)]_vars

====
